---- MODULE Spec2Model ----
(***************************************************************************)
(* A model of the LIS2MDL magnetometer driver (src/src/lib.rs).            *)
(*                                                                         *)
(* The driver state is the struct Lis2mdl: the device address, the raw     *)
(* sample (mag_x, mag_y, mag_z : i16) and the four calibration extrema     *)
(* (x_min, x_max, y_min, y_max : f32).  The bus transport and the delay    *)
(* provider are the environment: every driver operation is one action, and *)
(* the outcome of each transport call it makes is an input of the action.  *)
(* The calls an operation issues are recorded, in order, in `trace`.       *)
(*                                                                         *)
(* f32 values are IEEE-754 binary32 values, held as their three bit fields *)
(* [s, e, m]; the arithmetic below is round-to-nearest-even, bit for bit.  *)
(***************************************************************************)
EXTENDS Integers, Sequences, FiniteSets

(***************************************************************************)
(* IEEE-754 binary32                                                       *)
(***************************************************************************)

\* e, evaluated once, handed to F: every use of the value inside F reads the
\* result instead of computing it again.
Bind(e, F(_)) == CHOOSE r \in {F(v) : v \in {e}} : TRUE

Pow2(k) == 2 ^ k

F32(s, e, m) == [s |-> s, e |-> e, m |-> m]

NaN == F32(0, 255, Pow2(22))

Inf(s) == F32(s, 255, 0)

Zero(s) == F32(s, 0, 0)

IsNaN(a) == a.e = 255 /\ a.m # 0

IsInf(a) == a.e = 255 /\ a.m = 0

IsZero(a) == a.e = 0 /\ a.m = 0

\* The 24-bit significand (hidden bit included) and the exponent it is scaled
\* by: the value of a finite a is (-1)^s * Sig(a) * 2^(Exp(a) - 150).
Sig(a) == IF a.e = 0 THEN a.m ELSE a.m + Pow2(23)

Exp(a) == IF a.e = 0 THEN 1 ELSE a.e

\* Number of bits of a natural below 2^31.
BitLen4(n) ==
    IF n >= 8 THEN 4 ELSE IF n >= 4 THEN 3 ELSE IF n >= 2 THEN 2 ELSE n

BitLen8(n) == IF n >= 16 THEN 4 + BitLen4(n \div 16) ELSE BitLen4(n)

BitLen16(n) == IF n >= 256 THEN 8 + BitLen8(n \div 256) ELSE BitLen8(n)

BitLen(n) == IF n >= 65536 THEN 16 + BitLen16(n \div 65536) ELSE BitLen16(n)

\* q with its last bit set when bits were lost below it (a sticky bit).
Jam(q, lost) == IF lost /\ q % 2 = 0 THEN q + 1 ELSE q

\* n shifted right by k bits, the bits shifted out OR-ed into the last bit.
ShiftRightJam(n, k) ==
    IF k = 0 THEN n
    ELSE IF k >= 31 THEN (IF n = 0 THEN 0 ELSE 1)
    ELSE Jam(n \div Pow2(k), n % Pow2(k) # 0)

\* sig * 2^(e - 153), sig # 0, rescaled so that the leading bit of sig is bit
\* 26, or as close to it as the exponent range (e >= 1) allows.
Align(e, sig) ==
    Bind(BitLen(sig), LAMBDA len :
      LET down  == IF len > 27 THEN len - 27 ELSE 0
          under == IF e + down < 1 THEN 1 - (e + down) ELSE 0
      IN Bind(<<ShiftRightJam(sig, down + under), e + down + under>>, LAMBDA p :
           LET len2 == BitLen(p[1])
               room == IF len2 < 27 THEN 27 - len2 ELSE 0
               up   == IF room < p[2] - 1 THEN room ELSE p[2] - 1
           IN [sig |-> p[1] * Pow2(up), e |-> p[2] - up]))

\* An aligned sig * 2^(e - 153) rounded to 24 bits, ties to even, and packed.
Round(s, e, sig) ==
    LET m0 == sig \div 8
        r  == sig % 8
        m1 == IF r > 4 \/ (r = 4 /\ m0 % 2 = 1) THEN m0 + 1 ELSE m0
    IN IF m1 = Pow2(24) THEN (IF e + 1 >= 255 THEN Inf(s) ELSE F32(s, e + 1, 0))
       ELSE IF e >= 255 THEN Inf(s)
       ELSE IF m1 < Pow2(23) THEN F32(s, 0, m1)
       ELSE F32(s, e, m1 - Pow2(23))

\* The binary32 nearest to (-1)^s * sig * 2^(e - 153), ties to even; sig is a
\* natural below 2^31 whose last bit is sticky.
RoundPack(s, e, sig) ==
    Bind(<<s, e, sig>>, LAMBDA a :
      IF a[3] = 0 THEN Zero(a[1])
      ELSE Bind(Align(a[2], a[3]), LAMBDA n : Round(a[1], n.e, n.sig)))

\* A finite nonzero a as [sig, exp] with sig in [2^23, 2^24).
Normal(a) ==
    LET k == 24 - BitLen(Sig(a))
    IN [sig |-> Sig(a) * Pow2(k), exp |-> Exp(a) - k]

FNeg(a) == IF IsNaN(a) THEN NaN ELSE F32(1 - a.s, a.e, a.m)

FAbs(x) == Bind(x, LAMBDA a : IF IsNaN(a) THEN NaN ELSE F32(0, a.e, a.m))

FAdd(x, y) ==
    Bind(<<x, y>>, LAMBDA p :
      LET a == p[1]
          b == p[2]
          ea == Exp(a)
          eb == Exp(b)
          e  == IF ea >= eb THEN ea ELSE eb
          sa == ShiftRightJam(Sig(a) * 8, e - ea)
          sb == ShiftRightJam(Sig(b) * 8, e - eb)
      IN IF IsNaN(a) \/ IsNaN(b) THEN NaN
         ELSE IF IsInf(a) THEN (IF IsInf(b) /\ a.s # b.s THEN NaN ELSE a)
         ELSE IF IsInf(b) THEN b
         ELSE IF a.s = b.s THEN RoundPack(a.s, e, sa + sb)
         ELSE IF sa > sb THEN RoundPack(a.s, e, sa - sb)
         ELSE IF sb > sa THEN RoundPack(b.s, e, sb - sa)
         ELSE Zero(0))

FSub(x, y) == Bind(y, LAMBDA b : FAdd(x, FNeg(b)))

\* The 48-bit product of two 24-bit significands, computed in 12-bit limbs,
\* as its high and low 24 bits.
Product(ma, mb) ==
    LET ah == ma \div Pow2(12)
        al == ma % Pow2(12)
        bh == mb \div Pow2(12)
        bl == mb % Pow2(12)
    IN Bind(<<ah * bl + al * bh, al * bl, ah * bh>>, LAMBDA t :
         Bind(t[2] + (t[1] % Pow2(12)) * Pow2(12), LAMBDA low :
           [hi |-> t[3] + t[1] \div Pow2(12) + low \div Pow2(24),
            lo |-> low % Pow2(24)]))

FMul(x, y) ==
    Bind(<<x, y>>, LAMBDA p :
      LET a == p[1]
          b == p[2]
          s == IF a.s = b.s THEN 0 ELSE 1
      IN IF IsNaN(a) \/ IsNaN(b) THEN NaN
         ELSE IF IsInf(a) \/ IsInf(b)
              THEN (IF IsZero(a) \/ IsZero(b) THEN NaN ELSE Inf(s))
         ELSE IF IsZero(a) \/ IsZero(b) THEN Zero(s)
         ELSE Bind(<<Normal(a), Normal(b)>>, LAMBDA n :
                Bind(Product(n[1].sig, n[2].sig), LAMBDA pr :
                  RoundPack(s, n[1].exp + n[2].exp - 126,
                            Jam(pr.hi * 8 + pr.lo \div Pow2(21),
                                pr.lo % Pow2(21) # 0)))))

\* Long division: k more quotient bits of qr.rem / d appended to qr.q
\* (d < 2^24 and k <= 7, so that nothing reaches 2^31).
DivBits(k, qr, d) ==
    Bind(<<qr.q, qr.rem * Pow2(k)>>, LAMBDA t :
      [q |-> t[1] * Pow2(k) + t[2] \div d, rem |-> t[2] % d])

\* The first 27 bits of ma / mb, the last one sticky.
Quotient(ma, mb) ==
    Bind(DivBits(7, [q |-> ma \div mb, rem |-> ma % mb], mb), LAMBDA d1 :
      Bind(DivBits(7, d1, mb), LAMBDA d2 :
        Bind(DivBits(7, d2, mb), LAMBDA d3 :
          Bind(DivBits(5, d3, mb), LAMBDA d4 :
            Jam(d4.q, d4.rem # 0)))))

FDiv(x, y) ==
    Bind(<<x, y>>, LAMBDA p :
      LET a == p[1]
          b == p[2]
          s == IF a.s = b.s THEN 0 ELSE 1
      IN IF IsNaN(a) \/ IsNaN(b) THEN NaN
         ELSE IF IsInf(a) THEN (IF IsInf(b) THEN NaN ELSE Inf(s))
         ELSE IF IsInf(b) THEN Zero(s)
         ELSE IF IsZero(b) THEN (IF IsZero(a) THEN NaN ELSE Inf(s))
         ELSE IF IsZero(a) THEN Zero(s)
         ELSE Bind(<<Normal(a), Normal(b)>>, LAMBDA n :
                RoundPack(s, n[1].exp - n[2].exp + 127,
                          Quotient(n[1].sig, n[2].sig))))

\* Position of a non-NaN value in the order of the reals (-0 = +0).
Key(a) == LET mag == a.e * Pow2(23) + a.m IN IF a.s = 1 THEN 0 - mag ELSE mag

FLt(a, b) == ~IsNaN(a) /\ ~IsNaN(b) /\ Key(a) < Key(b)

FLe(a, b) == ~IsNaN(a) /\ ~IsNaN(b) /\ Key(a) <= Key(b)

FGt(a, b) == FLt(b, a)

FEq(a, b) == ~IsNaN(a) /\ ~IsNaN(b) /\ Key(a) = Key(b)

\* The second operand, whatever the first: an assignment in place of max.
FMax_assign(a, b) == b

\* The larger operand: max written where min was meant.
FMin_as_max(a, b) == IF IsNaN(a) THEN b ELSE IF IsNaN(b) THEN a
                     ELSE IF FLt(a, b) THEN b ELSE a

\* The first operand, whatever the second: the minimum is never updated.
FMin_keep(a, b) == a

\* f32::max and f32::min: a NaN operand is ignored.
FMax(a, b) == IF IsNaN(a) THEN b ELSE IF IsNaN(b) THEN a
              ELSE IF FLt(a, b) THEN b ELSE a

FMin(a, b) == IF IsNaN(a) THEN b ELSE IF IsNaN(b) THEN a
              ELSE IF FLt(b, a) THEN b ELSE a

\* `n as f32` for an integer of magnitude below 2^24 (exact).
FromInt(n) == IF n < 0 THEN RoundPack(1, 153, 0 - n) ELSE RoundPack(0, 153, n)

\* The decimal literal p/q written in the source, as the nearest binary32.
Dec(p, q) == FDiv(FromInt(p), FromInt(q))

(***************************************************************************)
(* Constants of src/src/lib.rs                                             *)
(***************************************************************************)

DEFAULT_DEVICE_ID == 30

LIS2MDL_CFG_REG_A == 96

LIS2MDL_CFG_REG_B == 97

LIS2MDL_CFG_REG_C == 98

LIS2MDL_OUTX_L_REG == 104

LIS2MDL_WHO_AM_I_REG == 79

CHIP_ID == 64

LIS2MDL_MAG_LSB == Dec(15, 10)

LIS2MDL_MILLIGAUSS_TO_MICROTESLA == Dec(1, 10)

\* f32::MAX and f32::MIN: the largest finite binary32 and its negation.
F32_MAX == F32(0, 254, Pow2(23) - 1)

F32_MIN == F32(1, 254, Pow2(23) - 1)

\* core::f32::consts::PI = 0x40490FDB
PI == F32(0, 128, 4788187)

\* The float literals 0.0, 2.0, 4.0, 180.0 and 360.0.
F0 == Zero(0)

F2 == FromInt(2)

F4 == FromInt(4)

F180 == FromInt(180)

F360 == FromInt(360)

\* The constant B of micromath's atan2_norm.
ATAN2_B == Dec(596227, 1000000)

(***************************************************************************)
(* The environment: what the bus transport may answer                      *)
(***************************************************************************)

\* The six-byte buffers a successful read transaction may return: the first
\* NumSampleBuffers of these.  As (x, y, z) they are (128, 0, 1),
\* (-128, 0, -1), (0, 128, -32768), (0, -128, 32767), (32767, -32768, 0),
\* (200, 400, 0), (-3, -5, 2).
NumSampleBuffers == 5

SampleBufferPool ==
    << <<128, 0, 0, 0, 1, 0>>,
       <<128, 255, 0, 0, 255, 255>>,
       <<0, 0, 128, 0, 0, 128>>,
       <<0, 0, 128, 255, 255, 127>>,
       <<255, 127, 0, 128, 0, 0>>,
       <<200, 0, 144, 1, 0, 0>>,
       <<253, 255, 251, 255, 2, 0>> >>

SampleBuffers == {SampleBufferPool[i] : i \in 1..NumSampleBuffers}

\* The transport's error type E.
TransportErrors == {"ArbitrationLoss", "NoAcknowledge"}

\* Outcome of an I2c::write call.
WriteOutcomes == {"ok"} \cup TransportErrors

\* Outcome of an I2c::transaction call that reads into a buffer: the bytes
\* read, or the transport's error.
TxOk(data) == [ok |-> TRUE, data |-> data]

TxErr(e) == [ok |-> FALSE, err |-> e]

TxOutcomes(buffers) == {TxOk(d) : d \in buffers} \cup {TxErr(e) : e \in TransportErrors}

\* The answers to the four writes of start.  An answer after the first
\* failing one is never asked for, so it is fixed to "ok".
StartOutcomes ==
    {outs \in [1..4 -> WriteOutcomes] :
        \A i \in 1..4 : \A j \in 1..4 : (i < j /\ outs[i] # "ok") => outs[j] = "ok"}

\* Addresses a driver may be constructed with: Address::default() and a raw byte.
AddressInputs == {DEFAULT_DEVICE_ID, 28}

RegisterInputs == {LIS2MDL_CFG_REG_A}

ByteInputs == {CHIP_ID, 0}

\* What a one-byte register read and a six-byte sample read may answer.
RegisterOutcomes == TxOutcomes({<<b>> : b \in ByteInputs})

ReadOutcomes == TxOutcomes(SampleBuffers)

(***************************************************************************)
(* Values returned and calls recorded                                      *)
(***************************************************************************)

\* Result<T, Error<E>>; () is modelled as 0.
Ok(v) == [ok |-> TRUE, val |-> v]

Err(e) == [ok |-> FALSE, err |-> e]

\* Error::I2C(e)
I2C(e) == [variant |-> "I2C", e |-> e]

WriteCall(addr, bytes, out) ==
    [call |-> "write", addr |-> addr, bytes |-> bytes, res |-> out]

TransactionCall(addr, wr, buf, out) ==
    [call |-> "transaction", addr |-> addr, write |-> wr, read |-> buf,
     res |-> IF out.ok THEN "ok" ELSE out.err]

DelayCall(ns) == [call |-> "delay_ns", ns |-> ns]

(***************************************************************************)
(* The driver                                                              *)
(***************************************************************************)

VARIABLES
    address,                        \* Lis2mdl.address
    mag_x, mag_y, mag_z,            \* raw_sample
    x_min, x_max, y_min, y_max,     \* calibration_extrema
    last_op,                        \* the operation that ran last
    result,                         \* what it returned
    trace,                          \* the transport and delay calls it made
    seen_x, seen_y                  \* converted x, y values get_heading has seen

vars == <<address, mag_x, mag_y, mag_z, x_min, x_max, y_min, y_max,
          last_op, result, trace, seen_x, seen_y>>

driver == <<address, mag_x, mag_y, mag_z, x_min, x_max, y_min, y_max>>

raw_sample == <<mag_x, mag_y, mag_z>>

calibration_extrema == <<x_min, x_max, y_min, y_max>>

\* new with infinities as the sentinels.
new_infinite(a) ==
    [address |-> a,
     mag_x |-> 0, mag_y |-> 0, mag_z |-> 0,
     x_min |-> Inf(0), x_max |-> Inf(1),
     y_min |-> Inf(0), y_max |-> Inf(1)]

\* new with the extrema zeroed like the raw sample.
new_zeroed(a) ==
    [address |-> a,
     mag_x |-> 0, mag_y |-> 0, mag_z |-> 0,
     x_min |-> F0, x_max |-> F0,
     y_min |-> F0, y_max |-> F0]

new(a) ==
    [address |-> a,
     mag_x |-> 0, mag_y |-> 0, mag_z |-> 0,
     x_min |-> F32_MAX, x_max |-> F32_MIN,
     y_min |-> F32_MAX, y_max |-> F32_MIN]

set_register(addr, reg, value, out) ==
    [trace  |-> <<WriteCall(addr, <<reg, value>>, out)>>,
     result |-> IF out = "ok" THEN Ok(0) ELSE Err(I2C(out))]

\* start with the last settle time as short as the others.
start_short_settle(addr, outs) ==
    LET w1 == set_register(addr, LIS2MDL_CFG_REG_C, 0, outs[1])
        t1 == w1.trace \o <<DelayCall(5000)>>
        w2 == set_register(addr, LIS2MDL_CFG_REG_C, 17, outs[2])
        t2 == t1 \o w2.trace \o <<DelayCall(5000)>>
        w3 == set_register(addr, LIS2MDL_CFG_REG_A, 0, outs[3])
        t3 == t2 \o w3.trace \o <<DelayCall(5000)>>
        w4 == set_register(addr, LIS2MDL_CFG_REG_B, 0, outs[4])
        t4 == t3 \o w4.trace \o <<DelayCall(5000)>>
    IN IF ~w1.result.ok THEN [trace |-> w1.trace, result |-> w1.result]
       ELSE IF ~w2.result.ok THEN [trace |-> t1 \o w2.trace, result |-> w2.result]
       ELSE IF ~w3.result.ok THEN [trace |-> t2 \o w3.trace, result |-> w3.result]
       ELSE IF ~w4.result.ok THEN [trace |-> t3 \o w4.trace, result |-> w4.result]
       ELSE [trace |-> t4, result |-> Ok(0)]

\* start that waits out the settle time before it looks at the write's result.
start_late_check(addr, outs) ==
    LET w1 == set_register(addr, LIS2MDL_CFG_REG_C, 0, outs[1])
        t1 == w1.trace \o <<DelayCall(5000)>>
        w2 == set_register(addr, LIS2MDL_CFG_REG_C, 17, outs[2])
        t2 == t1 \o w2.trace \o <<DelayCall(5000)>>
        w3 == set_register(addr, LIS2MDL_CFG_REG_A, 0, outs[3])
        t3 == t2 \o w3.trace \o <<DelayCall(5000)>>
        w4 == set_register(addr, LIS2MDL_CFG_REG_B, 0, outs[4])
        t4 == t3 \o w4.trace \o <<DelayCall(10000)>>
    IN IF ~w1.result.ok THEN [trace |-> t1, result |-> w1.result]
       ELSE IF ~w2.result.ok THEN [trace |-> t2, result |-> w2.result]
       ELSE IF ~w3.result.ok THEN [trace |-> t3, result |-> w3.result]
       ELSE IF ~w4.result.ok THEN [trace |-> t4, result |-> w4.result]
       ELSE [trace |-> t4, result |-> Ok(0)]

start(addr, outs) ==
    LET w1 == set_register(addr, LIS2MDL_CFG_REG_C, 0, outs[1])
        t1 == w1.trace \o <<DelayCall(5000)>>
        w2 == set_register(addr, LIS2MDL_CFG_REG_C, 17, outs[2])
        t2 == t1 \o w2.trace \o <<DelayCall(5000)>>
        w3 == set_register(addr, LIS2MDL_CFG_REG_A, 0, outs[3])
        t3 == t2 \o w3.trace \o <<DelayCall(5000)>>
        w4 == set_register(addr, LIS2MDL_CFG_REG_B, 0, outs[4])
        t4 == t3 \o w4.trace \o <<DelayCall(10000)>>
    IN IF ~w1.result.ok THEN [trace |-> w1.trace, result |-> w1.result]
       ELSE IF ~w2.result.ok THEN [trace |-> t1 \o w2.trace, result |-> w2.result]
       ELSE IF ~w3.result.ok THEN [trace |-> t2 \o w3.trace, result |-> w3.result]
       ELSE IF ~w4.result.ok THEN [trace |-> t3 \o w4.trace, result |-> w4.result]
       ELSE [trace |-> t4, result |-> Ok(0)]

\* whoami is get_register(LIS2MDL_WHO_AM_I_REG).
get_register(addr, reg, out) ==
    [trace  |-> <<TransactionCall(addr, <<reg>>, IF out.ok THEN out.data ELSE <<0>>, out)>>,
     result |-> IF out.ok THEN Ok(out.data[1]) ELSE Err(I2C(out.err))]

whoami(addr, out) == get_register(addr, LIS2MDL_WHO_AM_I_REG, out)

\* The two bytes taken high byte first.
from_be_bytes(lo, hi) ==
    LET u == hi + 256 * lo IN IF u >= 32768 THEN u - 65536 ELSE u

\* i16::from_le_bytes([lo, hi])
from_le_bytes(lo, hi) ==
    LET u == lo + 256 * hi IN IF u >= 32768 THEN u - 65536 ELSE u

\* read that decodes its buffer whether or not the transaction succeeded.
read_unchecked(addr, old, out) ==
    LET buf == IF out.ok THEN out.data ELSE <<0, 0, 0, 0, 0, 0>>
    IN [trace  |-> <<TransactionCall(addr, <<LIS2MDL_OUTX_L_REG>>, buf, out)>>,
        result |-> IF out.ok THEN Ok(0) ELSE Err(I2C(out.err)),
        sample |-> <<from_le_bytes(buf[1], buf[2]),
                     from_le_bytes(buf[3], buf[4]),
                     from_le_bytes(buf[5], buf[6])>>]

read(addr, old, out) ==
    [trace  |-> <<TransactionCall(addr, <<LIS2MDL_OUTX_L_REG>>,
                    IF out.ok THEN out.data ELSE <<0, 0, 0, 0, 0, 0>>, out)>>,
     result |-> IF out.ok THEN Ok(0) ELSE Err(I2C(out.err)),
     sample |-> IF out.ok
                THEN <<from_le_bytes(out.data[1], out.data[2]),
                       from_le_bytes(out.data[3], out.data[4]),
                       from_le_bytes(out.data[5], out.data[6])>>
                ELSE old]

\* One axis of current_xyz.
to_microtesla(raw) ==
    FMul(FMul(FromInt(raw), LIS2MDL_MAG_LSB), LIS2MDL_MILLIGAUSS_TO_MICROTESLA)

current_xyz(mx, my, mz) == <<to_microtesla(mx), to_microtesla(my), to_microtesla(mz)>>

\* micromath's F32Ext::atan2, which `y.atan2(x)` resolves to in this no_std
\* crate: a branch-free rational approximation of the quadrant-normalised
\* angle (0..4), then scaled by PI/2.
atan2_norm(y0, x0) ==
    Bind(<<y0, x0>>, LAMBDA a :
      LET y == a[1]
          x == a[2]
          \* q = ((!ux_s & uy_s) >> 29 | ux_s >> 30) as f32
          q == FromInt((IF x.s = 0 /\ y.s = 1 THEN 4 ELSE 0) + (IF x.s = 1 THEN 2 ELSE 0))
      IN Bind(FAbs(FMul(FMul(ATAN2_B, x), y)), LAMBDA bxy_a :
           Bind(FAdd(bxy_a, FMul(y, y)), LAMBDA n :
             Bind(FDiv(n, FAdd(FAdd(FMul(x, x), bxy_a), n)), LAMBDA atan_1q :
               \* from_bits((ux_s ^ uy_s) | atan_1q.to_bits()) + q
               FAdd(IF IsNaN(atan_1q) THEN NaN
                    ELSE F32(IF x.s = y.s THEN atan_1q.s ELSE 1 - atan_1q.s,
                             atan_1q.e, atan_1q.m),
                    q)))))

atan2(y, x) ==
    Bind(atan2_norm(y, x), LAMBDA n :
      FMul(FDiv(PI, F2), IF FGt(n, F2) THEN FSub(n, F4) ELSE n))

get_heading(self) ==
    Bind(current_xyz(self.mag_x, self.mag_y, self.mag_z), LAMBDA xyz :
      LET x == xyz[1]
          y == xyz[2]
      IN Bind([x_max |-> FMax(self.x_max, x), x_min |-> FMin(self.x_min, x),
               y_max |-> FMax(self.y_max, y), y_min |-> FMin(self.y_min, y)], LAMBDA ext :
           Bind([x |-> FDiv(FAdd(ext.x_max, ext.x_min), F2),
                 y |-> FDiv(FAdd(ext.y_max, ext.y_min), F2)], LAMBDA offset :
             Bind(FDiv(FMul(atan2(FSub(y, offset.y), FSub(x, offset.x)), F180), PI),
                  LAMBDA heading :
               [x_max |-> ext.x_max, x_min |-> ext.x_min,
                y_max |-> ext.y_max, y_min |-> ext.y_min,
                x_offset |-> offset.x, y_offset |-> offset.y,
                heading |-> IF FLt(heading, F0) THEN FAdd(heading, F360)
                            ELSE heading]))))

Self ==
    [address |-> address, mag_x |-> mag_x, mag_y |-> mag_y, mag_z |-> mag_z,
     x_min |-> x_min, x_max |-> x_max, y_min |-> y_min, y_max |-> y_max]

Init ==
    \E a \in AddressInputs :
        LET d == new(a)
        IN /\ address = d.address
           /\ mag_x = d.mag_x /\ mag_y = d.mag_y /\ mag_z = d.mag_z
           /\ x_min = d.x_min /\ x_max = d.x_max
           /\ y_min = d.y_min /\ y_max = d.y_max
           /\ last_op = "new"
           /\ result = Ok(0)
           /\ trace = <<>>
           /\ seen_x = {} /\ seen_y = {}

Start ==
    \E outs \in StartOutcomes :
        \E r \in {start(address, outs)} :
           /\ last_op' = "start"
           /\ result' = r.result
           /\ trace' = r.trace
           /\ UNCHANGED <<driver, seen_x, seen_y>>

Whoami ==
    \E out \in RegisterOutcomes :
        \E r \in {whoami(address, out)} :
           /\ last_op' = "whoami"
           /\ result' = r.result
           /\ trace' = r.trace
           /\ UNCHANGED <<driver, seen_x, seen_y>>

GetRegister ==
    \E reg \in RegisterInputs, out \in RegisterOutcomes :
        \E r \in {get_register(address, reg, out)} :
           /\ last_op' = "get_register"
           /\ result' = r.result
           /\ trace' = r.trace
           /\ UNCHANGED <<driver, seen_x, seen_y>>

SetRegister ==
    \E reg \in RegisterInputs, value \in ByteInputs, out \in WriteOutcomes :
        \E r \in {set_register(address, reg, value, out)} :
           /\ last_op' = "set_register"
           /\ result' = r.result
           /\ trace' = r.trace
           /\ UNCHANGED <<driver, seen_x, seen_y>>

Read ==
    \E out \in ReadOutcomes :
        \E r \in {read(address, raw_sample, out)} :
           /\ last_op' = "read"
           /\ result' = r.result
           /\ trace' = r.trace
           /\ mag_x' = r.sample[1]
           /\ mag_y' = r.sample[2]
           /\ mag_z' = r.sample[3]
           /\ UNCHANGED <<address, calibration_extrema, seen_x, seen_y>>

CurrentXyz ==
    /\ last_op' = "current_xyz"
    /\ result' = Ok(current_xyz(mag_x, mag_y, mag_z))
    /\ trace' = <<>>
    /\ UNCHANGED <<driver, seen_x, seen_y>>

GetHeading ==
    \E r \in {get_heading(Self)} :
       /\ last_op' = "get_heading"
       /\ result' = Ok([heading |-> r.heading,
                        x_offset |-> r.x_offset, y_offset |-> r.y_offset])
       /\ trace' = <<>>
       /\ x_max' = r.x_max /\ x_min' = r.x_min
       /\ y_max' = r.y_max /\ y_min' = r.y_min
       /\ seen_x' = seen_x \cup {to_microtesla(mag_x)}
       /\ seen_y' = seen_y \cup {to_microtesla(mag_y)}
       /\ UNCHANGED <<address, raw_sample>>

Next ==
    \/ Start
    \/ Whoami
    \/ GetRegister
    \/ SetRegister
    \/ Read
    \/ CurrentXyz
    \/ GetHeading

Spec == Init /\ [][Next]_vars

(***************************************************************************)
(* Properties                                                              *)
(***************************************************************************)

\* The payloads and settle times of the start sequence, as the specification
\* lists them.
StartPayloads == << <<98, 0>>, <<98, 17>>, <<96, 0>>, <<97, 0>> >>

StartDelays == <<5000, 5000, 5000, 10000>>

WriteIndices(tr) == {i \in 1..Len(tr) : tr[i].call = "write"}

DelayIndices(tr) == {i \in 1..Len(tr) : tr[i].call = "delay_ns"}

FailedWrites(tr) == {i \in WriteIndices(tr) : tr[i].res # "ok"}

\* The first k-1 steps of the start sequence, complete: write i succeeded
\* with payload i at position 2i-1, and delay i follows it at position 2i.
StartPrefixDone(tr, k) ==
    \A i \in 1..(k - 1) :
        /\ tr[2 * i - 1].call = "write"
        /\ tr[2 * i - 1].addr = address
        /\ tr[2 * i - 1].bytes = StartPayloads[i]
        /\ tr[2 * i - 1].res = "ok"
        /\ tr[2 * i].call = "delay_ns"
        /\ tr[2 * i].ns = StartDelays[i]

\* C1: a start whose every transport write succeeds issues exactly the four
\* writes [0x62,0x00], [0x62,0x11], [0x60,0x00], [0x61,0x00] to the driver's
\* address, in that order, each followed by exactly one delay of 5000, 5000,
\* 5000 and 10000 ns, and returns success.
C1_StartSequence ==
    (last_op = "start" /\ FailedWrites(trace) = {}) =>
        /\ result = Ok(0)
        /\ Len(trace) = 8
        /\ Cardinality(WriteIndices(trace)) = 4
        /\ Cardinality(DelayIndices(trace)) = 4
        /\ StartPrefixDone(trace, 5)

C1_Witness == last_op = "start" /\ result.ok /\ Len(trace) = 8

\* C2: if the k-th write of start fails, start returns the bus error wrapping
\* that transport error after exactly k writes and k-1 delays: the failed
\* write is the last call, it is not retried, and the earlier writes stand.
C2_StartAbort ==
    (last_op = "start" /\ FailedWrites(trace) # {}) =>
        \E k \in 1..4 :
            /\ FailedWrites(trace) = {2 * k - 1}
            /\ Len(trace) = 2 * k - 1
            /\ Cardinality(WriteIndices(trace)) = k
            /\ Cardinality(DelayIndices(trace)) = k - 1
            /\ StartPrefixDone(trace, k)
            /\ trace[2 * k - 1].addr = address
            /\ trace[2 * k - 1].bytes = StartPayloads[k]
            /\ trace[2 * k - 1].res \in TransportErrors
            /\ result = [ok |-> FALSE,
                         err |-> [variant |-> "I2C", e |-> trace[2 * k - 1].res]]

C2_Witness ==
    /\ last_op = "start"
    /\ ~result.ok
    /\ Len(trace) = 5
    /\ trace[5].res = "NoAcknowledge"

\* C3: when the transaction of read fails, read returns the bus error and
\* raw_sample keeps the values it had before the call.
C3_ReadFailureKeepsSample ==
    [][(last_op' = "read" /\ trace'[1].res # "ok") =>
          /\ result' = [ok |-> FALSE,
                        err |-> [variant |-> "I2C", e |-> trace'[1].res]]
          /\ mag_x' = mag_x /\ mag_y' = mag_y /\ mag_z' = mag_z]_vars

C3_Witness ==
    /\ last_op = "read"
    /\ ~result.ok
    /\ mag_x # 0 /\ mag_z # 0
    /\ seen_x # {}

\* C4: from one state to the next, whatever the operation, x_max and y_max
\* never decrease and x_min and y_min never increase.
C4_ExtremaMonotonic ==
    [][/\ FLe(x_max, x_max') /\ FLe(y_max, y_max')
       /\ FLe(x_min', x_min) /\ FLe(y_min', y_min)]_vars

\* get_heading has run on a sample strictly inside the x window and strictly
\* below the top of the y window.
C4_Witness ==
    /\ last_op = "get_heading"
    /\ FLt(x_min, to_microtesla(mag_x)) /\ FLt(to_microtesla(mag_x), x_max)
    /\ FLt(to_microtesla(mag_y), y_max)

\* C5: once get_heading has been called, x_min <= x_max and y_min <= y_max.
C5_ExtremaOrdered ==
    (seen_x # {}) => (FLe(x_min, x_max) /\ FLe(y_min, y_max))

C5_Witness ==
    /\ seen_x # {}
    /\ FLt(x_min, x_max) /\ FLt(y_min, y_max)
    /\ last_op = "read"

\* C6 as stated: construction makes no transport or delay call, never fails,
\* and yields raw_sample (0,0,0) and extrema (+inf, -inf, +inf, -inf).
C6_Original ==
    (last_op = "new") =>
        /\ trace = <<>>
        /\ result.ok
        /\ raw_sample = <<0, 0, 0>>
        /\ calibration_extrema = <<Inf(0), Inf(1), Inf(0), Inf(1)>>

\* C6 amended: construction makes no transport or delay call, never fails,
\* and yields raw_sample (0,0,0) and extrema (f32::MAX, f32::MIN, f32::MAX,
\* f32::MIN): the largest finite binary32 0x7F7FFFFF and its negation.
C6_Amended ==
    (last_op = "new") =>
        /\ trace = <<>>
        /\ result.ok
        /\ raw_sample = <<0, 0, 0>>
        /\ x_min = [s |-> 0, e |-> 254, m |-> 8388607]
        /\ x_max = [s |-> 1, e |-> 254, m |-> 8388607]
        /\ y_min = [s |-> 0, e |-> 254, m |-> 8388607]
        /\ y_max = [s |-> 1, e |-> 254, m |-> 8388607]

C6_Witness == last_op = "new" /\ trace = <<>> /\ address = DEFAULT_DEVICE_ID

\* C7: get_heading returns a value h with 0 <= h < 360 (never NaN, never
\* negative, never 360), for every raw_sample and calibration state.
C7_HeadingRange ==
    (last_op = "get_heading") =>
        /\ ~IsNaN(result.val.heading)
        /\ FLe(F0, result.val.heading)
        /\ FLt(result.val.heading, F360)

\* C8 as stated: after a get_heading call the window is exactly the sample
\* it ran on: x_min = x_max = converted x and y_min = y_max = converted y.
C8_Original ==
    (last_op = "get_heading") =>
        /\ x_min = to_microtesla(mag_x) /\ x_max = to_microtesla(mag_x)
        /\ y_min = to_microtesla(mag_y) /\ y_max = to_microtesla(mag_y)

\* C8 amended: when get_heading has seen no other converted sample since
\* construction, after the call x_min = x_max = converted x and y_min =
\* y_max = converted y; and any get_heading call on a sample it has seen
\* before leaves the extrema unchanged.
C8_Amended ==
    [][(last_op' = "get_heading") =>
          /\ (seen_x' = {to_microtesla(mag_x')} /\ seen_y' = {to_microtesla(mag_y')}) =>
                /\ x_min' = to_microtesla(mag_x') /\ x_max' = to_microtesla(mag_x')
                /\ y_min' = to_microtesla(mag_y') /\ y_max' = to_microtesla(mag_y')
          /\ (to_microtesla(mag_x') \in seen_x /\ to_microtesla(mag_y') \in seen_y) =>
                calibration_extrema' = calibration_extrema]_vars

C8_Witness ==
    /\ last_op = "get_heading"
    /\ mag_x = 128
    /\ seen_x = {to_microtesla(128)} /\ seen_y = {to_microtesla(0)}
    /\ x_min = to_microtesla(128) /\ x_max = to_microtesla(128)

\* C9: once get_heading has been called, x_min/x_max (y_min/y_max) are
\* exactly the least/greatest converted x (y) value the get_heading calls
\* have seen, and the offset the last call used is their midpoint; with the
\* window (-c, c, -c, c) and the sample (0, -c) the offsets are (0, 0) and
\* the heading is 270.
C9_ExtremaAreSeenRange ==
    (seen_x # {}) =>
        /\ x_min \in seen_x /\ \A v \in seen_x : FLe(x_min, v)
        /\ x_max \in seen_x /\ \A v \in seen_x : FLe(v, x_max)
        /\ y_min \in seen_y /\ \A v \in seen_y : FLe(y_min, v)
        /\ y_max \in seen_y /\ \A v \in seen_y : FLe(v, y_max)
        /\ (last_op = "get_heading") =>
              /\ FAdd(result.val.x_offset, result.val.x_offset) = FAdd(x_max, x_min)
              /\ FAdd(result.val.y_offset, result.val.y_offset) = FAdd(y_max, y_min)
        /\ (/\ last_op = "get_heading"
            /\ mag_x = 0 /\ mag_y = -128
            /\ seen_x = {to_microtesla(-128), F0, to_microtesla(128)}
            /\ seen_y = {to_microtesla(-128), F0, to_microtesla(128)}) =>
              /\ calibration_extrema =
                    <<to_microtesla(-128), to_microtesla(128),
                      to_microtesla(-128), to_microtesla(128)>>
              /\ result.val.x_offset = F0
              /\ result.val.y_offset = F0
              /\ result.val.heading = FromInt(270)

C9_Witness ==
    /\ last_op = "get_heading"
    /\ mag_x = 0 /\ mag_y = -128
    /\ x_min = to_microtesla(-128) /\ x_max = to_microtesla(128)
    /\ y_min = to_microtesla(-128) /\ y_max = to_microtesla(128)
    /\ result.val.heading = FromInt(270)

\* v is the signed 16-bit value whose low byte is lo and high byte is hi.
IsLittleEndianI16(v, lo, hi) ==
    /\ v \in -32768..32767
    /\ (v - (lo + 256 * hi)) % 65536 = 0

\* C10: a successful read issues exactly one write-then-read transaction
\* (write [0x68], read six bytes) and sets raw_sample to the little-endian
\* signed 16-bit decoding of the bytes; no other operation changes
\* raw_sample.
C10_ReadDecodes ==
    [][/\ (last_op' = "read" /\ result'.ok) =>
            /\ Len(trace') = 1
            /\ trace'[1].call = "transaction"
            /\ trace'[1].addr = address
            /\ trace'[1].write = <<104>>
            /\ Len(trace'[1].read) = 6
            /\ IsLittleEndianI16(mag_x', trace'[1].read[1], trace'[1].read[2])
            /\ IsLittleEndianI16(mag_y', trace'[1].read[3], trace'[1].read[4])
            /\ IsLittleEndianI16(mag_z', trace'[1].read[5], trace'[1].read[6])
       /\ (raw_sample' # raw_sample) => (last_op' = "read" /\ result'.ok)]_vars

C10_Witness ==
    /\ last_op = "read"
    /\ result.ok
    /\ raw_sample = <<0, -128, 32767>>

====
